---- MODULE Spec2Model ----
(***************************************************************************)
(* Account authentication and lifecycle core of the quiz application:      *)
(* the in-memory UserStore, the password and token utilities and the user  *)
(* service (register, login with lockout, profile read/update, and the     *)
(* stubbed confirmation / reset flows).                                     *)
(*                                                                         *)
(* Strings that the code compares case-insensitively (usernames, emails)   *)
(* and strings that the validation schemas inspect (passwords) are tuples  *)
(* of one-character strings.  JavaScript null is the empty tuple; the      *)
(* undefined returned by a failed lookup is a record of its own.            *)
(* Time is the millisecond clock read by Date.now() / new Date().          *)
(***************************************************************************)
EXTENDS Integers, Sequences, FiniteSets, TLC

VARIABLES
    records,    \* UserStore.records: the Map's values in insertion order
    now,        \* the clock, in milliseconds
    issued,     \* the identifiers generateId has returned so far
    inflight,   \* per caller: the call suspended at an await, or idle
    result      \* what the last completed call returned or threw

vars == <<records, now, issued, inflight, result>>

----------------------------------------------------------------------------
(* Bounds of the model *)

MaxUsers == 2
MaxAccounts == 1
MaxTicks == 2
MaxProcs == 2
MaxPatchTicks == 1

----------------------------------------------------------------------------
(* Values *)

null == <<>>
undefined == [undefined |-> TRUE]

UpperLetters == <<"A","B","C","D","E","F","G","H","I","J","K","L","M",
                  "N","O","P","Q","R","S","T","U","V","W","X","Y","Z">>
LowerLetters == <<"a","b","c","d","e","f","g","h","i","j","k","l","m",
                  "n","o","p","q","r","s","t","u","v","w","x","y","z">>
Digits == {"0","1","2","3","4","5","6","7","8","9"}

Range(s) == {s[i] : i \in DOMAIN s}
IsUpper(c) == c \in Range(UpperLetters)
IsLower(c) == c \in Range(LowerLetters)
IsAlnum(c) == IsUpper(c) \/ IsLower(c) \/ c \in Digits

(* String.prototype.toLowerCase, letter by letter *)
LowerOf == [c \in Range(UpperLetters) |->
               LowerLetters[CHOOSE i \in DOMAIN UpperLetters : UpperLetters[i] = c]]

LowerChar(c) == IF c \in DOMAIN LowerOf THEN LowerOf[c] ELSE c

toLowerCase(s) == [i \in DOMAIN s |-> LowerChar(s[i])]

Min(S) == CHOOSE x \in S : \A y \in S : x <= y

(* The inputs the calls are made with *)
bob == <<"b","o","b">>
Bob == <<"B","o","b">>
amy == <<"a","m","y">>
bobMail == <<"b","@","q",".","i","o">>
BobMail == <<"B","@","q",".","i","o">>
amyMail == <<"a","@","q",".","i","o">>
pw1 == <<"P","a","s","s","w","0","r","d","!">>
pw2 == <<"S","e","c","r","3","t","#","x">>
avatarUrl == <<"h","t","t","p",":","/","/","q",".","i","o","/","a">>

Usernames == {bob, Bob, amy}
Emails == {bobMail, BobMail, amyMail}
Passwords == {pw1, pw2}
Uuids == {<<"uuid", n>> : n \in 1..MaxUsers}
notAUuid == <<"uuid">>

thirtyMinutes == 30 * 60 * 1000
TickMs == 15 * 60 * 1000
StartMs == 4 * thirtyMinutes
tokenTtlSeconds == 24 * 60 * 60

----------------------------------------------------------------------------
(* utils/auth *)

sha256hex(s) == <<"sha256", s>>

hashPassword(password) == sha256hex(password)

comparePassword_plain(password, hash) == password = hash

comparePassword(password, hash) == hashPassword(password) = hash

base64(x) == <<"base64", x>>
JSONstringify(x) == <<"json", x>>
hmacSha256(key, msg) == <<"hmac-sha256", key, msg>>
secretKey == <<"s","e","c","r","e","t","-","k","e","y">>

(* A string of the token codec is a sequence of pieces: an encoded value *)
(* (base64 text, which has no "." in it), or the delimiter               *)
dot == <<".">>
junk == <<"junk">>

(* `${a}.${b}` and `${a}.${b}.${c}` *)
join2(a, b) == a \o <<dot>> \o b
join3(a, b, c) == a \o <<dot>> \o b \o <<dot>> \o c

(* String.prototype.split('.') *)
RECURSIVE split(_)
split(s) ==
    LET dots == {i \in DOMAIN s : s[i] = dot} IN
    IF dots = {} THEN <<s>>
    ELSE <<SubSeq(s, 1, Min(dots) - 1)>>
            \o split(SubSeq(s, Min(dots) + 1, Len(s)))

(* t1, t2: the two readings of Date.now() *)
generateToken(payload, t1, t2) ==
    LET header == <<base64(JSONstringify([alg |-> "HS256", typ |-> "JWT"]))>>
        body == <<base64(JSONstringify(
                    [iat |-> t1 \div 1000,
                     exp |-> (t2 \div 1000) + tokenTtlSeconds] @@ payload))>>
        signature == <<hmacSha256(secretKey, join2(header, body))>>
    IN  join3(header, body, signature)

(* const [header, body, signature] = parts: the i-th element, and what a *)
(* template literal makes of an element that is not there               *)
templateOf(parts, i) == IF i <= Len(parts) THEN parts[i] ELSE <<<<"undefined">>>>

(* JSON.parse(Buffer.from(body, 'base64').toString()) goes through for *)
(* the encoding of a JSON text and throws for anything else            *)
parses(body) ==
    /\ Len(body) = 1
    /\ Len(body[1]) = 2
    /\ body[1][1] = "base64"
    /\ Len(body[1][2]) = 2
    /\ body[1][2][1] = "json"

JSONparse(body) == body[1][2][2]

verifyToken_noExpiry(token, t) ==
    LET parts == split(token)
        header == templateOf(parts, 1)
        body == templateOf(parts, 2)
        expectedSignature == <<hmacSha256(secretKey, join2(header, body))>>
        invalid == [op |-> "verifyToken", code |-> "Invalid token", data |-> <<>>]
    IN  IF Len(parts) < 3 \/ parts[3] # expectedSignature THEN invalid
        ELSE IF ~parses(body) THEN invalid
        ELSE [op |-> "verifyToken", code |-> "OK", data |-> JSONparse(body)]

(* t: the reading of Date.now().  Whatever is thrown inside is caught and *)
(* thrown again as Error('Invalid token')                                 *)
verifyToken(token, t) ==
    LET parts == split(token)
        header == templateOf(parts, 1)
        body == templateOf(parts, 2)
        expectedSignature == <<hmacSha256(secretKey, join2(header, body))>>
        invalid == [op |-> "verifyToken", code |-> "Invalid token", data |-> <<>>]
    IN  IF Len(parts) < 3 \/ parts[3] # expectedSignature THEN invalid
        ELSE IF ~parses(body) THEN invalid
        ELSE IF JSONparse(body).exp < t \div 1000 THEN invalid
        ELSE [op |-> "verifyToken", code |-> "OK", data |-> JSONparse(body)]

toISOString(ms) == <<"iso", ms>>
getTime(iso) == iso[2]

----------------------------------------------------------------------------
(* services/user/userValidation *)

usernameSchema(s) ==
    /\ Len(s) >= 3
    /\ Len(s) <= 30
    /\ \A i \in DOMAIN s : IsAlnum(s[i]) \/ s[i] = "_"

(* local part, one "@", a domain with a dot and a top-level label of two *)
(* or more letters                                                        *)
emailSchema(s) ==
    \E a \in DOMAIN s :
        /\ s[a] = "@"
        /\ a > 1
        /\ \A i \in DOMAIN s : s[i] = "@" => i = a
        /\ \E d \in DOMAIN s :
              /\ d > a + 1
              /\ s[d] = "."
              /\ Len(s) >= d + 2
              /\ \A i \in (d + 1)..Len(s) : IsUpper(s[i]) \/ IsLower(s[i])

passwordSchema(s) ==
    /\ Len(s) >= 8
    /\ \E i \in DOMAIN s : IsUpper(s[i])
    /\ \E i \in DOMAIN s : s[i] \in Digits
    /\ \E i \in DOMAIN s : ~IsAlnum(s[i])

registerSchema(body) ==
    /\ usernameSchema(body.username)
    /\ emailSchema(body.email)
    /\ passwordSchema(body.password)
    /\ body.profile \in {"iniciante", "experiente"}

loginSchema(body) ==
    /\ Len(body.username) >= 1
    /\ Len(body.password) >= 1

paramsSchema(id) == id \in Uuids

updateSchema_anyTier(body) ==
    /\ "username" \in DOMAIN body => usernameSchema(body.username)
    /\ "email" \in DOMAIN body => emailSchema(body.email)
    /\ "profile" \in DOMAIN body
          => body.profile \in {"iniciante", "experiente", "administrador"}
    /\ "avatar" \in DOMAIN body => body.avatar \in {null, avatarUrl}

updateSchema(body) ==
    /\ "username" \in DOMAIN body => usernameSchema(body.username)
    /\ "email" \in DOMAIN body => emailSchema(body.email)
    /\ "profile" \in DOMAIN body => body.profile \in {"iniciante", "experiente"}
    /\ "avatar" \in DOMAIN body => body.avatar \in {null, avatarUrl}

(* What safeParse hands back for a body that passes updateSchema: the keys *)
(* of the schema, any other key of the body dropped                        *)
updateKeys == {"username", "email", "profile", "avatar"}
updateData_unstripped(body) == body
updateData(body) == [k \in DOMAIN body \cap updateKeys |-> body[k]]

----------------------------------------------------------------------------
(* instances/user/userStore: the operations of UserStore on the Map, held *)
(* as the sequence of its values in insertion order                        *)

IndexOf(recs, id) ==
    IF \E i \in DOMAIN recs : recs[i].id = id
    THEN CHOOSE i \in DOMAIN recs : recs[i].id = id
    ELSE 0

getById(recs, id) ==
    IF IndexOf(recs, id) = 0 THEN undefined ELSE recs[IndexOf(recs, id)]

findByUsername_caseSensitive(recs, username) ==
    LET hits == {i \in DOMAIN recs : recs[i].username = username}
    IN  IF hits = {} THEN undefined ELSE recs[Min(hits)]

findByUsername(recs, username) ==
    LET hits == {i \in DOMAIN recs :
                    toLowerCase(recs[i].username) = toLowerCase(username)}
    IN  IF hits = {} THEN undefined ELSE recs[Min(hits)]

findByEmail_caseSensitive(recs, email) ==
    LET hits == {i \in DOMAIN recs : recs[i].email = email}
    IN  IF hits = {} THEN undefined ELSE recs[Min(hits)]

findByEmail(recs, email) ==
    LET hits == {i \in DOMAIN recs :
                    toLowerCase(recs[i].email) = toLowerCase(email)}
    IN  IF hits = {} THEN undefined ELSE recs[Min(hits)]

add(recs, record) ==
    IF IndexOf(recs, record.id) = 0
    THEN Append(recs, record)
    ELSE [recs EXCEPT ![IndexOf(recs, record.id)] = record]

(* { ...existing, ...data } stored under id; the store is left as it is *)
(* when id is absent                                                     *)
update(recs, id, data) ==
    IF IndexOf(recs, id) = 0
    THEN recs
    ELSE [recs EXCEPT ![IndexOf(recs, id)] = data @@ recs[IndexOf(recs, id)]]

----------------------------------------------------------------------------
(* services/user/userService *)

Thrown(op, code) == [op |-> op, code |-> code, data |-> null]
Returned(op, data) == [op |-> op, code |-> "OK", data |-> data]

ProfileResponse_whole(user) == user

ProfileResponse(user) ==
    [id |-> user.id, username |-> user.username, email |-> user.email,
     profile |-> user.profile, avatar |-> user.avatar, status |-> user.status,
     dateCreated |-> user.dateCreated]

registerCheck_emailFirst(recs, body) ==
    IF ~registerSchema(body) THEN "VALIDATION_ERROR"
    ELSE IF findByEmail(recs, body.email) # undefined THEN "DUPLICATE_EMAIL"
    ELSE IF findByUsername(recs, body.username) # undefined THEN "DUPLICATE_USERNAME"
    ELSE "OK"

(* userRegister up to the await: "OK" when the body passes every check *)
registerCheck(recs, body) ==
    IF ~registerSchema(body) THEN "VALIDATION_ERROR"
    ELSE IF findByUsername(recs, body.username) # undefined THEN "DUPLICATE_USERNAME"
    ELSE IF findByEmail(recs, body.email) # undefined THEN "DUPLICATE_EMAIL"
    ELSE "OK"

newUser_plainPassword(body, id, t) ==
    [id |-> id,
     username |-> body.username,
     email |-> body.email,
     passwordHash |-> body.password,
     profile |-> body.profile,
     avatar |-> null,
     status |-> "pendente",
     loginAttempts |-> 0,
     lastLoginAttempt |-> null,
     dateCreated |-> toISOString(t),
     dateModified |-> toISOString(t)]

newUser(body, id, t) ==
    [id |-> id,
     username |-> body.username,
     email |-> body.email,
     passwordHash |-> hashPassword(body.password),
     profile |-> body.profile,
     avatar |-> null,
     status |-> "pendente",
     loginAttempts |-> 0,
     lastLoginAttempt |-> null,
     dateCreated |-> toISOString(t),
     dateModified |-> toISOString(t)]

registerResume_confirmed(recs, user) ==
    [records |-> add(recs, [status |-> "ativo"] @@ user),
     result |-> Returned("register", ProfileResponse(user))]

(* userRegister after the await of hashPassword *)
registerResume(recs, user) ==
    [records |-> add(recs, user),
     result |-> Returned("register", ProfileResponse(user))]

(* The check of a blocked account: whether the block still stands at t *)
isBlocked_inverted(user, t) ==
    LET blockTime == IF user.lastLoginAttempt # null
                     THEN getTime(user.lastLoginAttempt) ELSE 0
    IN  user.status = "bloqueado" /\ t - blockTime > thirtyMinutes

isBlocked_inclusive(user, t) ==
    LET blockTime == IF user.lastLoginAttempt # null
                     THEN getTime(user.lastLoginAttempt) ELSE 0
    IN  user.status = "bloqueado" /\ t - blockTime <= thirtyMinutes

isBlocked(user, t) ==
    LET blockTime == IF user.lastLoginAttempt # null
                     THEN getTime(user.lastLoginAttempt) ELSE 0
    IN  user.status = "bloqueado" /\ t - blockTime < thirtyMinutes

(* Unblock account after 30 minutes *)
unblock(recs, user) ==
    update(recs, user.id,
           [status |-> "ativo", loginAttempts |-> 0, lastLoginAttempt |-> null])

isPending_misspelt(user) == user.status = "pending"

isPending(user) == user.status = "pendente"

(* userLogin up to the await of comparePassword.  user is the record    *)
(* object read at the start: the unblocking update stores a new object, *)
(* so user keeps the values it was read with.  code "AWAIT": the call   *)
(* goes on to the password comparison.                                   *)
loginCheck(recs, body, t) ==
    IF ~loginSchema(body)
    THEN [code |-> "VALIDATION_ERROR", records |-> recs, user |-> null]
    ELSE
    LET byName == findByUsername(recs, body.username)
        user == IF byName # undefined THEN byName
                ELSE findByEmail(recs, body.username)
    IN  IF user = undefined
        THEN [code |-> "INVALID_CREDENTIALS", records |-> recs, user |-> null]
        ELSE IF isBlocked(user, t)
        THEN [code |-> "ACCOUNT_BLOCKED", records |-> recs, user |-> user]
        ELSE
        LET recs1 == IF user.status = "bloqueado" THEN unblock(recs, user) ELSE recs
        IN  IF isPending(user)
            THEN [code |-> "ACCOUNT_PENDING", records |-> recs1, user |-> user]
            ELSE [code |-> "AWAIT", records |-> recs1, user |-> user]

(* The password did not match *)
loginFailed_noCount(recs, user, t) ==
    [records |-> update(recs, user.id, [lastLoginAttempt |-> toISOString(t)]),
     result |-> Thrown("login", "INVALID_CREDENTIALS")]

loginFailed(recs, user, t) ==
    LET newAttempts == user.loginAttempts + 1 IN
    IF newAttempts >= 3
    THEN [records |-> update(recs, user.id,
                             [loginAttempts |-> newAttempts,
                              lastLoginAttempt |-> toISOString(t),
                              status |-> "bloqueado"]),
          result |-> Thrown("login", "ACCOUNT_BLOCKED")]
    ELSE [records |-> update(recs, user.id,
                             [loginAttempts |-> newAttempts,
                              lastLoginAttempt |-> toISOString(t)]),
          result |-> Thrown("login", "INVALID_CREDENTIALS")]

(* The password matched.  t1, t2: the clock as generateToken reads it *)
loginSucceeded_keepsCount(recs, user, t1, t2) ==
    [records |-> recs,
     result |-> Returned("login",
                   [id |-> user.id, username |-> user.username,
                    email |-> user.email, profile |-> user.profile,
                    token |-> generateToken(
                                 [id |-> user.id,
                                  username |-> user.username,
                                  profile |-> user.profile], t1, t2)])]

loginSucceeded_stamps(recs, user, t1, t2) ==
    [records |-> update(recs, user.id,
                        [loginAttempts |-> 0, lastLoginAttempt |-> null,
                         dateModified |-> toISOString(t1)]),
     result |-> Returned("login",
                   [id |-> user.id, username |-> user.username,
                    email |-> user.email, profile |-> user.profile,
                    token |-> generateToken(
                                 [id |-> user.id,
                                  username |-> user.username,
                                  profile |-> user.profile], t1, t2)])]

loginSucceeded(recs, user, t1, t2) ==
    [records |-> update(recs, user.id,
                        [loginAttempts |-> 0, lastLoginAttempt |-> null]),
     result |-> Returned("login",
                   [id |-> user.id, username |-> user.username,
                    email |-> user.email, profile |-> user.profile,
                    token |-> generateToken(
                                 [id |-> user.id,
                                  username |-> user.username,
                                  profile |-> user.profile], t1, t2)])]

(* userLogin after the await *)
loginResume(recs, user, body, t, t1, t2) ==
    IF ~comparePassword(body.password, user.passwordHash)
    THEN loginFailed(recs, user, t)
    ELSE loginSucceeded(recs, user, t1, t2)

(* The whole of userLogin when nothing runs between its two halves *)
userLogin(recs, body, t) ==
    LET c == loginCheck(recs, body, t) IN
    IF c.code # "AWAIT"
    THEN [records |-> c.records, result |-> Thrown("login", c.code), user |-> c.user]
    ELSE [user |-> c.user] @@ loginResume(c.records, c.user, body, t, t, t)

userGetProfile_hidesBlock(recs, id) ==
    IF ~paramsSchema(id) THEN Thrown("getProfile", "VALIDATION_ERROR")
    ELSE IF getById(recs, id) = undefined THEN Thrown("getProfile", "NOT_FOUND")
    ELSE Returned("getProfile",
                  ProfileResponse([status |-> IF getById(recs, id).status = "bloqueado"
                                              THEN "ativo"
                                              ELSE getById(recs, id).status]
                                     @@ getById(recs, id)))

userGetProfile(recs, id) ==
    IF ~paramsSchema(id) THEN Thrown("getProfile", "VALIDATION_ERROR")
    ELSE IF getById(recs, id) = undefined THEN Thrown("getProfile", "NOT_FOUND")
    ELSE Returned("getProfile", ProfileResponse(getById(recs, id)))

(* The two uniqueness checks of userUpdateProfile: the code it throws, *)
(* "OK" when the patch passes both                                     *)
updateCheck_noEmailCheck(recs, user, data) ==
    IF /\ "username" \in DOMAIN data
       /\ data.username # user.username
       /\ findByUsername(recs, data.username) # undefined
    THEN "DUPLICATE_USERNAME"
    ELSE "OK"

updateCheck_noNameCheck(recs, user, data) ==
    IF /\ "email" \in DOMAIN data
       /\ data.email # user.email
       /\ findByEmail(recs, data.email) # undefined
    THEN "DUPLICATE_EMAIL"
    ELSE "OK"

updateCheck(recs, user, data) ==
    IF /\ "username" \in DOMAIN data
       /\ data.username # user.username
       /\ findByUsername(recs, data.username) # undefined
    THEN "DUPLICATE_USERNAME"
    ELSE IF /\ "email" \in DOMAIN data
            /\ data.email # user.email
            /\ findByEmail(recs, data.email) # undefined
    THEN "DUPLICATE_EMAIL"
    ELSE "OK"

(* { ...updateData, dateModified: new Date().toISOString() } *)
patchOf_noStamp(data, t) == data

patchOf(data, t) == [dateModified |-> toISOString(t)] @@ data

userUpdateProfile(recs, id, body, t) ==
    IF ~paramsSchema(id) \/ ~updateSchema(body)
    THEN [records |-> recs, result |-> Thrown("updateProfile", "VALIDATION_ERROR")]
    ELSE
    LET user == getById(recs, id)
        data == updateData(body)
    IN
    IF user = undefined
    THEN [records |-> recs, result |-> Thrown("updateProfile", "NOT_FOUND")]
    ELSE IF updateCheck(recs, user, data) # "OK"
    THEN [records |-> recs,
          result |-> Thrown("updateProfile", updateCheck(recs, user, data))]
    ELSE LET patch == patchOf(data, t)
             updated == patch @@ user
         IN  [records |-> update(recs, id, patch),
              result |-> Returned("updateProfile", ProfileResponse(updated))]

userConfirmEmail_accepts(token) ==
    IF Len(token) < 1 THEN Thrown("confirmEmail", "VALIDATION_ERROR")
    ELSE Returned("confirmEmail", <<"Email confirmed">>)

userConfirmEmail(token) ==
    IF Len(token) < 1 THEN Thrown("confirmEmail", "VALIDATION_ERROR")
    ELSE Thrown("confirmEmail", "INVALID_TOKEN")

userRequestPasswordReset_alwaysSent(recs, email) ==
    IF ~emailSchema(email) THEN Thrown("requestPasswordReset", "VALIDATION_ERROR")
    ELSE Returned("requestPasswordReset", <<"Password reset email sent">>)

userRequestPasswordReset(recs, email) ==
    IF ~emailSchema(email) THEN Thrown("requestPasswordReset", "VALIDATION_ERROR")
    ELSE IF findByEmail(recs, email) = undefined
    THEN Thrown("requestPasswordReset", "NOT_FOUND")
    ELSE Returned("requestPasswordReset", <<"Password reset email sent">>)

userResetPassword(token, newPassword) ==
    IF Len(token) < 1 \/ ~passwordSchema(newPassword)
    THEN Thrown("resetPassword", "VALIDATION_ERROR")
    ELSE Thrown("resetPassword", "INVALID_TOKEN")

----------------------------------------------------------------------------
(* The callers and the inputs they call with *)

Procs == 1..MaxProcs
Idle == [op |-> "idle"]

Body(u, e, p, pr) == [username |-> u, email |-> e, password |-> p, profile |-> pr]
Credentials(u, p) == [username |-> u, password |-> p]

zed == <<"z","e","d">>
tooShort == <<"b","o">>

(* Two people, for the runs that follow an account through login and lockout *)
AuthBodies ==
    {Body(bob, bobMail, pw1, "iniciante"),
     Body(amy, amyMail, pw2, "experiente"),
     Body(tooShort, bobMail, pw1, "iniciante")}

LoginBodies ==
    {Credentials(u, p) : u \in {Bob, bobMail, amy, zed}, p \in Passwords}
      \cup {Credentials(bob, <<>>)}

(* The identifiers generateId draws from in those runs *)
AuthUuids == {<<"uuid", n>> : n \in 1..MaxAccounts}

(* What a step leaves in result: the call, its argument and its outcome *)
Outcome(args, r) == [args |-> args, user |-> null] @@ r

(* For a login also the record the call read when it started *)
LoginOutcome(args, user, r) == [args |-> args, user |-> user] @@ r

----------------------------------------------------------------------------
(* The calls, each run to completion with nothing in between *)

Register(body, ids) ==
    LET c == registerCheck(records, body) IN
    /\ IF c # "OK"
       THEN /\ records' = records
            /\ issued' = issued
            /\ result' = Outcome(body, Thrown("register", c))
       ELSE \E id \in ids \ issued :
               LET r == registerResume(records, newUser(body, id, now)) IN
               /\ records' = r.records
               /\ issued' = issued \cup {id}
               /\ result' = Outcome(body, r.result)
    /\ UNCHANGED <<now, inflight>>

Login(body) ==
    /\ LET r == userLogin(records, body, now) IN
       /\ records' = r.records
       /\ result' = LoginOutcome(body, r.user, r.result)
    /\ UNCHANGED <<now, issued, inflight>>

GetProfile(id) ==
    /\ result' = Outcome(id, userGetProfile(records, id))
    /\ UNCHANGED <<records, now, issued, inflight>>

UpdateProfile(id, body) ==
    /\ LET r == userUpdateProfile(records, id, body, now) IN
       /\ records' = r.records
       /\ result' = Outcome(<<id, body>>, r.result)
    /\ UNCHANGED <<now, issued, inflight>>

ConfirmEmail(token) ==
    /\ result' = Outcome(token, userConfirmEmail(token))
    /\ UNCHANGED <<records, now, issued, inflight>>

RequestPasswordReset(email) ==
    /\ result' = Outcome(email, userRequestPasswordReset(records, email))
    /\ UNCHANGED <<records, now, issued, inflight>>

ResetPassword(token, newPassword) ==
    /\ result' = Outcome(<<token, newPassword>>, userResetPassword(token, newPassword))
    /\ UNCHANGED <<records, now, issued, inflight>>

(* The clock advances *)
Tick(max) ==
    /\ now < StartMs + max * TickMs
    /\ now' = now + TickMs
    /\ result' = Outcome(null, Returned("tick", null))
    /\ UNCHANGED <<records, issued, inflight>>

(* Status changes made from outside the service: the confirmation of a   *)
(* pending account and the administrative deactivation of an active one *)
ExternalConfirm(id) ==
    /\ getById(records, id) # undefined
    /\ getById(records, id).status = "pendente"
    /\ records' = update(records, id, [status |-> "ativo"])
    /\ result' = Outcome(id, Returned("externalConfirm", null))
    /\ UNCHANGED <<now, issued, inflight>>

ExternalDeactivate(id) ==
    /\ getById(records, id) # undefined
    /\ getById(records, id).status = "ativo"
    /\ records' = update(records, id, [status |-> "inativo"])
    /\ result' = Outcome(id, Returned("externalDeactivate", null))
    /\ UNCHANGED <<now, issued, inflight>>

Init ==
    /\ records = <<>>
    /\ now = StartMs
    /\ issued = {}
    /\ inflight = [p \in Procs |-> Idle]
    /\ result = Outcome(null, Returned("none", null))

(* An account through registration, confirmation, login and lockout *)
Next ==
    \/ \E body \in AuthBodies : Register(body, AuthUuids)
    \/ \E body \in LoginBodies : Login(body)
    \/ \E id \in AuthUuids \cup {notAUuid} : GetProfile(id)
    \/ \E id \in AuthUuids : ExternalConfirm(id)
    \/ Tick(MaxTicks)

Spec == Init /\ [][Next]_vars

(* The same, with accounts deactivated from outside *)
NextAdmin ==
    \/ Next
    \/ \E id \in AuthUuids : ExternalDeactivate(id)

SpecAdmin == Init /\ [][NextAdmin]_vars

(* Registrations and profile updates over names and addresses that *)
(* differ by letter case only                                        *)
PasswordOf(u) == IF u = Bob THEN pw2 ELSE pw1
TierOf(e) == IF e = amyMail THEN "experiente" ELSE "iniciante"

ProfileBodies ==
    {Body(u, e, PasswordOf(u), TierOf(e)) : u \in Usernames, e \in Emails}
      \cup {Body(tooShort, bobMail, pw1, "iniciante")}

Patches ==
    {[username |-> u] : u \in Usernames}
      \cup {[email |-> e] : e \in Emails}
      \cup {[username |-> Bob, email |-> amyMail]}

NextProfile ==
    \/ \E body \in ProfileBodies : Register(body, Uuids)
    \/ \E id \in Uuids, body \in Patches : UpdateProfile(id, body)

SpecProfile == Init /\ [][NextProfile]_vars

(* Two accounts and patches of several fields at once, some of them with *)
(* keys that updateSchema does not know                                   *)
PatchBodies ==
    {Body(bob, bobMail, pw1, "iniciante"),
     Body(amy, amyMail, pw2, "iniciante")}

RichPatches ==
    {[email |-> amyMail, profile |-> "experiente", avatar |-> avatarUrl],
     [username |-> zed, email |-> BobMail],
     [username |-> amy, email |-> amyMail],
     [username |-> zed, id |-> notAUuid, passwordHash |-> hashPassword(pw2),
      dateCreated |-> toISOString(0)],
     [username |-> tooShort, avatar |-> null]}

PatchUuids == {<<"uuid", 1>>, <<"uuid", 2>>}

NextPatch ==
    \/ \E body \in PatchBodies : Register(body, PatchUuids)
    \/ \E id \in PatchUuids, body \in RichPatches : UpdateProfile(id, body)
    \/ Tick(MaxPatchTicks)

SpecPatch == Init /\ [][NextPatch]_vars

(* Two accounts and logins by username and by email, while the clock *)
(* moves                                                              *)
PairLogins ==
    {Credentials(Bob, pw1), Credentials(Bob, pw2),
     Credentials(amyMail, pw2), Credentials(BobMail, pw2),
     Credentials(zed, pw1)}

NextPair ==
    \/ \E body \in PatchBodies : Register(body, Uuids)
    \/ \E id \in Uuids : ExternalConfirm(id)
    \/ \E body \in PairLogins : Login(body)
    \/ Tick(MaxTicks)

SpecPair == Init /\ [][NextPair]_vars

(* One account, blocked and read while the clock moves *)
NextClock ==
    \/ Register(Body(bob, bobMail, pw1, "iniciante"), {<<"uuid", 1>>})
    \/ ExternalConfirm(<<"uuid", 1>>)
    \/ \E password \in Passwords : Login(Credentials(bob, password))
    \/ GetProfile(<<"uuid", 1>>)
    \/ Tick(MaxTicks)

SpecClock == Init /\ [][NextClock]_vars

(* One account and every call of the service *)
ServicePatches ==
    {[username |-> zed, id |-> notAUuid, passwordHash |-> hashPassword(pw2),
      dateCreated |-> toISOString(0)],
     [profile |-> "experiente", avatar |-> avatarUrl]}

(* The token the last call returned, if it was a login *)
TokensInHand ==
    IF result.op = "login" /\ result.code = "OK" THEN {result.data.token} ELSE {}

NextService ==
    \/ \E body \in AuthBodies : Register(body, AuthUuids)
    \/ \E body \in {Credentials(bob, pw1), Credentials(bob, pw2),
                     Credentials(amyMail, pw2)} : Login(body)
    \/ \E id \in Uuids \cup {notAUuid} : GetProfile(id)
    \/ \E id \in Uuids, body \in ServicePatches : UpdateProfile(id, body)
    \/ \E token \in {<<>>, <<junk>>} \cup TokensInHand : ConfirmEmail(token)
    \/ \E email \in {bobMail, BobMail, amyMail, tooShort} : RequestPasswordReset(email)
    \/ \E token \in {<<>>, <<junk>>} \cup TokensInHand, password \in {pw2, tooShort} :
          ResetPassword(token, password)
    \/ \E id \in AuthUuids : ExternalConfirm(id)

SpecService == Init /\ [][NextService]_vars

(* The seven calls of the service and nothing else, from the empty store *)
LifecycleTokens ==
    {<<>>, <<junk>>,
     generateToken([id |-> <<"uuid", 1>>, username |-> bob,
                    profile |-> "iniciante"], StartMs, StartMs)}

NextLifecycle ==
    \/ \E body \in AuthBodies : Register(body, Uuids)
    \/ \E body \in {Credentials(bob, pw1), Credentials(bob, pw2),
                     Credentials(amyMail, pw2)} : Login(body)
    \/ \E id \in Uuids \cup {notAUuid} : GetProfile(id)
    \/ \E id \in Uuids, body \in ServicePatches : UpdateProfile(id, body)
    \/ \E token \in LifecycleTokens : ConfirmEmail(token)
    \/ \E email \in {bobMail, amyMail, tooShort} : RequestPasswordReset(email)
    \/ \E token \in LifecycleTokens, password \in {pw2, tooShort} :
          ResetPassword(token, password)

SpecLifecycle == Init /\ [][NextLifecycle]_vars

----------------------------------------------------------------------------
(* The codecs on their own.  A token is generated, the clock moves, and *)
(* the token, or a string made from it, is verified; a password is     *)
(* hashed and a password is compared with the digest                   *)

HalfDayMs == 12 * 60 * 60 * 1000
MaxHalfDays == 2
TokenEndMs == StartMs + MaxHalfDays * HalfDayMs + 2 * 1000

TokenPayloads ==
    {[id |-> <<"uuid", 1>>, username |-> bob, profile |-> "iniciante"],
     [id |-> <<"uuid", 2>>, username |-> amy, profile |-> "experiente"]}

(* A body and a signature that the holder of a token can make without *)
(* the key                                                             *)
forgedBody ==
    <<base64(JSONstringify([id |-> <<"uuid", 2>>, username |-> amy,
                            profile |-> "experiente", iat |-> 0,
                            exp |-> TokenEndMs]))>>
forgedSignature(token) ==
    <<hmacSha256(junk, join2(split(token)[1], split(token)[2]))>>

(* The strings made from a token: itself, with components added, taken *)
(* away or replaced                                                     *)
StringsFrom(token) ==
    LET parts == split(token) IN
    {token,
     token \o <<dot, junk>>,
     token \o <<dot>>,
     join2(parts[1], parts[2]),
     join2(parts[1], parts[2]) \o <<dot>>,
     parts[1],
     <<>>,
     join3(parts[1], parts[2], <<junk>>),
     join3(parts[1], parts[2], forgedSignature(token)),
     join3(parts[1], forgedBody, parts[3]),
     join3(parts[1], <<junk>>, parts[3])}

(* generateToken: the clock may move by d between its two readings.  The *)
(* clock is followed at the start of a second and one millisecond before *)
(* and after it                                                          *)
GenerateToken(payload, d) ==
    /\ now % 1000 \in {0, 999}
    /\ now + d <= TokenEndMs
    /\ now' = now + d
    /\ result' = Outcome(payload, Returned("generateToken",
                                           generateToken(payload, now, now + d)))
    /\ UNCHANGED <<records, issued, inflight>>

VerifyToken(token) ==
    /\ result' = Outcome(token, verifyToken(token, now))
    /\ UNCHANGED <<records, now, issued, inflight>>

(* The clock moves while a token is held: by half a day, or, in the   *)
(* first seconds after a half day, to the last millisecond of the     *)
(* second and from there to the next second                           *)
TokenTick(d) ==
    /\ now % 1000 = (IF d = 1 THEN 999 ELSE 0)
    /\ d = 999 => (now - StartMs) % HalfDayMs < 2 * 1000
    /\ now + d <= TokenEndMs
    /\ now' = now + d
    /\ UNCHANGED <<records, issued, inflight, result>>

HashPassword(password) ==
    /\ result' = Outcome(password, Returned("hashPassword", hashPassword(password)))
    /\ UNCHANGED <<records, now, issued, inflight>>

ComparePassword(password, hash) ==
    /\ result' = Outcome(<<password, hash>>,
                         Returned("comparePassword", comparePassword(password, hash)))
    /\ UNCHANGED <<records, now, issued, inflight>>

NextCodec ==
    \/ \E payload \in TokenPayloads, d \in {0, 1} : GenerateToken(payload, d)
    \/ /\ result.op = "generateToken"
       /\ \E token \in StringsFrom(result.data) : VerifyToken(token)
    \/ \E d \in {1, 999, HalfDayMs} : TokenTick(d)
    \/ \E password \in Passwords : HashPassword(password)
    \/ /\ result.op = "hashPassword"
       /\ \E password \in Passwords, hash \in {result.data, result.args} :
             ComparePassword(password, hash)

SpecCodec == Init /\ [][NextCodec]_vars

----------------------------------------------------------------------------
(* Calls that overlap: a call suspended at its await leaves what it holds *)
(* in inflight, and any other caller may run before it resumes            *)

RegisterBegin(p, body) ==
    LET c == registerCheck(records, body) IN
    /\ inflight[p] = Idle
    /\ IF c # "OK"
       THEN /\ result' = Outcome(body, Thrown("register", c))
            /\ UNCHANGED <<issued, inflight>>
       ELSE \E id \in Uuids \ issued :
               /\ issued' = issued \cup {id}
               /\ inflight' = [inflight EXCEPT ![p] =
                                  [op |-> "register", body |-> body,
                                   user |-> newUser(body, id, now)]]
               /\ result' = result
    /\ UNCHANGED <<records, now>>

RegisterResume(p) ==
    /\ inflight[p].op = "register"
    /\ LET r == registerResume(records, inflight[p].user) IN
       /\ records' = r.records
       /\ result' = Outcome(inflight[p].body, r.result)
    /\ inflight' = [inflight EXCEPT ![p] = Idle]
    /\ UNCHANGED <<now, issued>>

LoginBegin(p, body) ==
    LET c == loginCheck(records, body, now) IN
    /\ inflight[p] = Idle
    /\ records' = c.records
    /\ IF c.code # "AWAIT"
       THEN /\ result' = LoginOutcome(body, c.user, Thrown("login", c.code))
            /\ inflight' = inflight
       ELSE /\ inflight' = [inflight EXCEPT ![p] =
                               [op |-> "login", body |-> body, user |-> c.user]]
            /\ result' = result
    /\ UNCHANGED <<now, issued>>

LoginResume(p) ==
    /\ inflight[p].op = "login"
    /\ LET r == loginResume(records, inflight[p].user, inflight[p].body,
                            now, now, now) IN
       /\ records' = r.records
       /\ result' = LoginOutcome(inflight[p].body, inflight[p].user, r.result)
    /\ inflight' = [inflight EXCEPT ![p] = Idle]
    /\ UNCHANGED <<now, issued>>

OverlapBodies ==
    {Body(bob, bobMail, pw1, "iniciante"),
     Body(Bob, amyMail, pw2, "iniciante"),
     Body(amy, BobMail, pw1, "experiente")}

NextOverlap ==
    \/ \E p \in Procs, body \in OverlapBodies : RegisterBegin(p, body)
    \/ \E p \in Procs : RegisterResume(p)
    \/ \E p \in Procs, body \in {Credentials(bob, pw1), Credentials(amyMail, pw2)} :
          LoginBegin(p, body)
    \/ \E p \in Procs : LoginResume(p)
    \/ \E id \in Uuids : ExternalConfirm(id)

SpecOverlap == Init /\ [][NextOverlap]_vars

----------------------------------------------------------------------------
(* Properties of login and lockout *)

(* The step is the return of the call of caller p that was suspended in *)
(* op                                                                    *)
Returns(p, op) == inflight[p].op = op /\ inflight'[p] = Idle

(* The position in the store of the account a login identifier stands  *)
(* for: the first one whose username equals it up to letter case, else *)
(* the first one whose email does; 0 when there is none                 *)
ResolvesTo(ident) ==
    LET byName == {i \in DOMAIN records :
                      toLowerCase(records[i].username) = toLowerCase(ident)}
        byMail == {i \in DOMAIN records :
                      toLowerCase(records[i].email) = toLowerCase(ident)}
    IN  IF byName # {} THEN Min(byName)
        ELSE IF byMail # {} THEN Min(byMail)
        ELSE 0

(* The step is a login call, with a well-formed body, that resolves to *)
(* the account at position i                                            *)
LoginOn(i) ==
    /\ result'.op = "login"
    /\ loginSchema(result'.args)
    /\ i = ResolvesTo(result'.args.username)

RightPassword(i) == result'.args.password \in
                        {p \in Passwords : sha256hex(p) = records[i].passwordHash}

Elapsed(i) == now - getTime(records[i].lastLoginAttempt)

(* C1: a wrong password on an active account with 0 or 1 failed attempts *)
(* fails with INVALID_CREDENTIALS and leaves it active with one attempt  *)
(* more; the wrong password that follows two failed attempts fails with  *)
(* ACCOUNT_BLOCKED and leaves the account blocked with 3 attempts and    *)
(* lastLoginAttempt = the time of that call.                             *)
C1_ThirdWrongPasswordBlocks ==
    [][\A i \in DOMAIN records :
          (/\ LoginOn(i)
           /\ records[i].status = "ativo"
           /\ records[i].loginAttempts \in 0..2
           /\ ~RightPassword(i))
          => IF records[i].loginAttempts < 2
             THEN /\ result'.code = "INVALID_CREDENTIALS"
                  /\ records'[i].status = "ativo"
                  /\ records'[i].loginAttempts = records[i].loginAttempts + 1
             ELSE /\ result'.code = "ACCOUNT_BLOCKED"
                  /\ records'[i].status = "bloqueado"
                  /\ records'[i].loginAttempts = 3
                  /\ records'[i].lastLoginAttempt = toISOString(now)]_vars

C1_Witness ==
    /\ result.op = "login"
    /\ result.code = "ACCOUNT_BLOCKED"
    /\ result.user # null
    /\ result.user.status = "ativo"
    /\ result.user.loginAttempts = 2
    /\ \E i \in DOMAIN records :
          /\ records[i].id = result.user.id
          /\ records[i].status = "bloqueado"
          /\ records[i].loginAttempts = 3
          /\ records[i].lastLoginAttempt = toISOString(now)

(* C2: a wrong password on a blocked account, 30 minutes or more after *)
(* lastLoginAttempt, fails with INVALID_CREDENTIALS and leaves the      *)
(* account active with one failed attempt.                              *)
C2_UnblockCountsFromZero ==
    [][\A i \in DOMAIN records :
          (/\ LoginOn(i)
           /\ records[i].status = "bloqueado"
           /\ records[i].lastLoginAttempt # null
           /\ Elapsed(i) >= thirtyMinutes
           /\ ~RightPassword(i))
          => /\ result'.code = "INVALID_CREDENTIALS"
             /\ records'[i].status = "ativo"
             /\ records'[i].loginAttempts = 1]_vars

(* C3: a login on a blocked account less than 30 minutes after          *)
(* lastLoginAttempt fails with ACCOUNT_BLOCKED, with the right password *)
(* as with a wrong one, and changes nothing in the store.               *)
C3_BlockedWithinWindow ==
    [][\A i \in DOMAIN records :
          (/\ LoginOn(i)
           /\ records[i].status = "bloqueado"
           /\ records[i].lastLoginAttempt # null
           /\ Elapsed(i) < thirtyMinutes)
          => /\ result'.code = "ACCOUNT_BLOCKED"
             /\ result'.data = null
             /\ records' = records]_vars

C3_Witness ==
    /\ result.op = "login"
    /\ result.code = "ACCOUNT_BLOCKED"
    /\ result.user # null
    /\ result.user.status = "bloqueado"
    /\ comparePassword(result.args.password, result.user.passwordHash)
    /\ now - getTime(result.user.lastLoginAttempt) = TickMs
    /\ \E i \in DOMAIN records : records[i] = result.user

(* C4: a login with the right password on a blocked account, 30 minutes *)
(* or more after lastLoginAttempt (exactly 30 minutes included),        *)
(* returns a token and leaves the account active with no failed attempt *)
(* and lastLoginAttempt null.                                           *)
C4_UnblockedLoginSucceeds ==
    [][\A i \in DOMAIN records :
          (/\ LoginOn(i)
           /\ records[i].status = "bloqueado"
           /\ records[i].lastLoginAttempt # null
           /\ Elapsed(i) >= thirtyMinutes
           /\ RightPassword(i))
          => /\ result'.code = "OK"
             /\ result'.data.token # null
             /\ result'.data.id = records[i].id
             /\ records'[i].status = "ativo"
             /\ records'[i].loginAttempts = 0
             /\ records'[i].lastLoginAttempt = null]_vars

C4_Witness ==
    /\ result.op = "login"
    /\ result.code = "OK"
    /\ result.user # null
    /\ result.user.status = "bloqueado"
    /\ now - getTime(result.user.lastLoginAttempt) = thirtyMinutes
    /\ \E i \in DOMAIN records :
          /\ records[i].id = result.user.id
          /\ records[i].status = "ativo"
          /\ records[i].loginAttempts = 0
          /\ records[i].lastLoginAttempt = null

(* C5: a login that resolves to a pending account fails with           *)
(* ACCOUNT_PENDING, with the right password as with a wrong one, and    *)
(* changes nothing in the store.                                        *)
C5_PendingIsRefused ==
    [][\A i \in DOMAIN records :
          (LoginOn(i) /\ records[i].status = "pendente")
          => /\ result'.code = "ACCOUNT_PENDING"
             /\ result'.data = null
             /\ records' = records]_vars

C5_Witness ==
    /\ result.op = "login"
    /\ result.code = "ACCOUNT_PENDING"
    /\ result.user # null
    /\ result.user.status = "pendente"
    /\ comparePassword(result.args.password, result.user.passwordHash)
    /\ \E i \in DOMAIN records : records[i] = result.user

(* C6: no call of the service takes an account out of inativo. *)
ServiceOps == {"register", "login", "getProfile", "updateProfile",
               "confirmEmail", "requestPasswordReset", "resetPassword"}

C6_InactiveStaysInactive ==
    [][\A i \in DOMAIN records :
          (result'.op \in ServiceOps /\ records[i].status = "inativo")
          => records'[i].status = "inativo"]_vars

----------------------------------------------------------------------------
(* Properties of registration and of the uniqueness of names *)

SameText(a, b) == toLowerCase(a) = toLowerCase(b)

NameTaken(u) == \E i \in DOMAIN records : SameText(records[i].username, u)
MailTaken(e) == \E i \in DOMAIN records : SameText(records[i].email, e)

NoTwoAlike ==
    \A i, j \in DOMAIN records :
        i # j => /\ ~SameText(records[i].username, records[j].username)
                 /\ ~SameText(records[i].email, records[j].email)

(* C7: after any sequence of register and updateProfile calls run one *)
(* after the other from an empty store, no two records have the same  *)
(* username up to letter case, and no two the same email.             *)
C7_NamesStayUnique == NoTwoAlike

(* an update has given an account a username other than the one it was *)
(* registered under (its password is not the one that username had)    *)
C7_Witness ==
    /\ Len(records) = 2
    /\ result.op = "updateProfile"
    /\ result.code = "OK"
    /\ "username" \in DOMAIN result.args[2]
    /\ \E i \in DOMAIN records :
          /\ records[i].id = result.args[1]
          /\ records[i].username = result.args[2].username
          /\ records[i].passwordHash # hashPassword(PasswordOf(records[i].username))

(* C8: of two register calls with the same username (or email) up to *)
(* letter case that overlap, at most one creates a record: a call     *)
(* that returns a new account does so in a store where no record has  *)
(* its username or its email.                                          *)
C8_OverlappingRegistersCannotBothPass ==
    [][\A p \in Procs :
          Returns(p, "register")
          => /\ ~NameTaken(inflight[p].body.username)
             /\ ~MailTaken(inflight[p].body.email)
             /\ NoTwoAlike']_vars

(* C9: a register call with a valid body whose username and email are *)
(* taken by no record adds one record under an identifier no record   *)
(* has, pending, with no failed attempt, lastLoginAttempt and avatar  *)
(* null, both dates = now, the username, email and profile of the     *)
(* body and the hash of its password; the other records are as before.*)
C9_RegisterCreatesPendingAccount ==
    [][(/\ result'.op = "register"
        /\ registerSchema(result'.args)
        /\ ~NameTaken(result'.args.username)
        /\ ~MailTaken(result'.args.email))
       => /\ result'.code = "OK"
          /\ Len(records') = Len(records) + 1
          /\ SubSeq(records', 1, Len(records)) = records
          /\ LET r == records'[Len(records')] IN
             /\ \A i \in DOMAIN records : records[i].id # r.id
             /\ r.id \in Uuids
             /\ r.status = "pendente"
             /\ r.loginAttempts = 0
             /\ r.lastLoginAttempt = null
             /\ r.avatar = null
             /\ r.dateCreated = toISOString(now)
             /\ r.dateModified = toISOString(now)
             /\ r.username = result'.args.username
             /\ r.email = result'.args.email
             /\ r.profile = result'.args.profile
             /\ r.passwordHash = sha256hex(result'.args.password)
             /\ result'.data.id = r.id]_vars

C9_Witness ==
    /\ result.op = "register"
    /\ result.code = "OK"
    /\ Len(records) = 2
    /\ records[2].id = result.data.id
    /\ records[2].username = result.args.username
    /\ records[2].status = "pendente"
    /\ records[1].id # records[2].id

(* C10: a register call with a valid body fails with DUPLICATE_USERNAME *)
(* exactly when a record has its username up to letter case; otherwise  *)
(* it fails with DUPLICATE_EMAIL exactly when a record has its email up *)
(* to letter case; a failed call changes nothing in the store.          *)
C10_DuplicateCodes ==
    [][(result'.op = "register" /\ registerSchema(result'.args))
       => /\ result'.code = "DUPLICATE_USERNAME" <=> NameTaken(result'.args.username)
          /\ ~NameTaken(result'.args.username)
                => (result'.code = "DUPLICATE_EMAIL" <=> MailTaken(result'.args.email))
          /\ result'.code # "OK" => records' = records /\ issued' = issued]_vars

C10_Witness ==
    /\ result.op = "register"
    /\ result.code = "DUPLICATE_USERNAME"
    /\ NameTaken(result.args.username)
    /\ \A i \in DOMAIN records : records[i].username # result.args.username
    /\ MailTaken(result.args.email)

----------------------------------------------------------------------------
(* Properties of updateProfile *)

(* The step is an updateProfile call, with a well-formed id and patch, *)
(* on the account at position i                                        *)
UpdateOn(i) ==
    /\ result'.op = "updateProfile"
    /\ paramsSchema(result'.args[1])
    /\ updateSchema(result'.args[2])
    /\ records[i].id = result'.args[1]

EmailHeldByOther(i, patch) ==
    /\ "email" \in DOMAIN patch
    /\ \E j \in DOMAIN records :
          j # i /\ SameText(records[j].email, patch.email)

UsernameRefused(i, patch) ==
    /\ "username" \in DOMAIN patch
    /\ patch.username # records[i].username
    /\ NameTaken(patch.username)

(* C11, as stated: an updateProfile call whose patch carries an email  *)
(* that another account has, up to letter case, fails with             *)
(* DUPLICATE_EMAIL and changes nothing in the store.                   *)
C11_EmailOfAnotherAccount ==
    [][\A i \in DOMAIN records :
          (UpdateOn(i) /\ EmailHeldByOther(i, result'.args[2]))
          => /\ result'.code = "DUPLICATE_EMAIL"
             /\ records' = records]_vars

(* C11, amended: such a call fails and changes nothing in the store: no *)
(* field of the patch is applied and dateModified stays; it fails with  *)
(* DUPLICATE_USERNAME when the patch also carries a username other than *)
(* the account's own that a record has up to letter case, and with      *)
(* DUPLICATE_EMAIL otherwise.                                           *)
C11_EmailOfAnotherAccountRefused ==
    [][\A i \in DOMAIN records :
          (UpdateOn(i) /\ EmailHeldByOther(i, result'.args[2]))
          => /\ result'.data = null
             /\ result'.code = IF UsernameRefused(i, result'.args[2])
                               THEN "DUPLICATE_USERNAME"
                               ELSE "DUPLICATE_EMAIL"
             /\ records' = records]_vars

(* the refused patch carried, with the email of the other account, a *)
(* username that no record has                                        *)
C11_Witness ==
    /\ result.op = "updateProfile"
    /\ result.code = "DUPLICATE_EMAIL"
    /\ "username" \in DOMAIN result.args[2]
    /\ ~NameTaken(result.args[2].username)
    /\ \E i, j \in DOMAIN records :
          /\ i # j
          /\ records[i].id = result.args[1]
          /\ SameText(records[j].email, result.args[2].email)
          /\ records[j].email # result.args[2].email

----------------------------------------------------------------------------
(* Properties of the token codec *)

(* The payload a generated token carries *)
PayloadOf(token) == JSONparse(split(token)[2])

ClaimsOf(payload) ==
    [id |-> payload.id, username |-> payload.username, profile |-> payload.profile]

(* The clock in seconds, as generateToken and verifyToken read it *)
nowSeconds == now \div 1000

(* C12: verifyToken throws Invalid token for every string that does not *)
(* split on "." into exactly three components.                          *)
C12_ThreeComponentsOnly ==
    (result.op = "verifyToken" /\ Len(split(result.args)) # 3)
       => result.code = "Invalid token"

(* C13: verifyToken of a generated token returns the claims the token   *)
(* was generated for when the clock, in seconds, is not later than the  *)
(* token's exp, and throws Invalid token when it is later; it throws    *)
(* for a string of three components that has the header of a generated  *)
(* token and a different body or a different signature.                 *)
C13_RoundTrip ==
    [][(result.op = "generateToken" /\ result'.op = "verifyToken")
       => LET token == result.data
              parts == split(result'.args)
          IN  /\ result'.args = token
                 => IF nowSeconds <= PayloadOf(token).exp
                    THEN /\ result'.code = "OK"
                         /\ ClaimsOf(result'.data) = result.args
                    ELSE /\ result'.code = "Invalid token"
                         /\ result'.data = null
              /\ (/\ Len(parts) = 3
                  /\ result'.args # token
                  /\ \/ parts[2] = split(token)[2]
                     \/ parts[3] = split(token)[3])
                 => result'.code = "Invalid token"]_vars

(* the token was verified in the last second of its life *)
C13_Witness ==
    /\ result.op = "verifyToken"
    /\ result.code = "OK"
    /\ Len(split(result.args)) = 3
    /\ split(result.args)[3] =
          <<hmacSha256(secretKey, join2(split(result.args)[1], split(result.args)[2]))>>
    /\ PayloadOf(result.args).exp = nowSeconds
    /\ result.data.username = bob

(* C14: every generated token has exp = iat + 86400. *)
C14_ExpiresADayAfterIssue ==
    result.op = "generateToken"
       => PayloadOf(result.data).exp = PayloadOf(result.data).iat + tokenTtlSeconds

----
(* Properties of the records *)

(* C15: in every state, of every record: lastLoginAttempt is not null *)
(* exactly when the record is blocked or has failed attempts, also    *)
(* when login calls on the same account overlap.                      *)
C15_LastAttemptIffBlockedOrFailed ==
    \A i \in DOMAIN records :
        records[i].lastLoginAttempt # null
           <=> (records[i].status = "bloqueado" \/ records[i].loginAttempts > 0)

(* C16: nothing that register, login, getProfile or updateProfile gives *)
(* back has a field passwordHash, loginAttempts or lastLoginAttempt, or  *)
(* the password hash of a record as the value of a field, in the token's *)
(* payload as elsewhere; a call that fails gives back no data.           *)
Guarded == {"passwordHash", "loginAttempts", "lastLoginAttempt"}

TextFields == {"id", "username", "email", "avatar", "dateCreated"}

Discloses(data) ==
    \/ DOMAIN data \cap Guarded # {}
    \/ \E k \in DOMAIN data \cap TextFields, i \in DOMAIN records :
          data[k] = records[i].passwordHash

C16_NothingGuardedIsReturned ==
    result.op \in {"register", "login", "getProfile", "updateProfile"}
       => IF result.code # "OK" THEN result.data = null
          ELSE /\ ~Discloses(result.data)
               /\ result.op = "login" => ~Discloses(PayloadOf(result.data.token))

(* a login has succeeded on an account that had failed attempts *)
C16_Witness ==
    /\ result.op = "login"
    /\ result.code = "OK"
    /\ result.user.loginAttempts > 0
    /\ result.user.lastLoginAttempt # null
    /\ \E i \in DOMAIN records : records[i].id = result.data.id

(* C17: a confirmEmail or resetPassword call with a well-formed input *)
(* fails with INVALID_TOKEN and changes nothing in the store, also    *)
(* when the token is one that login has returned.                     *)
C17_TokenFlowsAlwaysFail ==
    [][/\ (result'.op = "confirmEmail" /\ Len(result'.args) >= 1)
          => result'.code = "INVALID_TOKEN" /\ records' = records
       /\ (/\ result'.op = "resetPassword"
           /\ Len(result'.args[1]) >= 1
           /\ passwordSchema(result'.args[2]))
          => result'.code = "INVALID_TOKEN" /\ records' = records]_vars

(* confirmEmail was called with a token that verifyToken accepts, for *)
(* an account that is in the store                                    *)
C17_Witness ==
    /\ result.op = "confirmEmail"
    /\ result.code = "INVALID_TOKEN"
    /\ verifyToken(result.args, now).code = "OK"
    /\ \E i \in DOMAIN records :
          records[i].id = verifyToken(result.args, now).data.id

(* C19: no step takes a record out of the store or changes its id, its *)
(* dateCreated or its passwordHash; the number of records never goes   *)
(* down; and no two records have the same id (a record stays under the *)
(* key it was added under, which is its id).                           *)
C19_RecordsStay ==
    [][/\ Len(records') >= Len(records)
       /\ \A i \in DOMAIN records :
             /\ records'[i].id = records[i].id
             /\ records'[i].dateCreated = records[i].dateCreated
             /\ records'[i].passwordHash = records[i].passwordHash
       /\ \A i, j \in DOMAIN records' :
             records'[i].id = records'[j].id => i = j]_vars

(* an update went through whose body named an id, a passwordHash and a *)
(* dateCreated of its own                                               *)
C19_Witness ==
    /\ result.op = "updateProfile"
    /\ result.code = "OK"
    /\ "passwordHash" \in DOMAIN result.args[2]
    /\ \E i \in DOMAIN records :
          /\ records[i].id = result.args[1]
          /\ records[i].username = result.args[2].username
          /\ records[i].passwordHash # result.args[2].passwordHash
          /\ records[i].dateCreated # result.args[2].dateCreated

(* C20: a step of the clock changes no record; a blocked record stays  *)
(* as it is, whatever the time, through every step that is not a login *)
(* resolving to it; getProfile reports the status the record has, so   *)
(* bloqueado also after the 30 minutes; and a record goes from         *)
(* bloqueado to ativo in a login step only.                            *)
C20_TimeAloneChangesNothing ==
    [][/\ result'.op = "tick" => records' = records
       /\ \A i \in DOMAIN records :
             /\ (records[i].status = "bloqueado" /\ ~LoginOn(i))
                   => records'[i] = records[i]
             /\ (records[i].status = "bloqueado" /\ records'[i].status = "ativo")
                   => result'.op = "login"
             /\ (/\ result'.op = "getProfile"
                 /\ result'.args = records[i].id)
                   => /\ result'.code = "OK"
                      /\ result'.data.status = records[i].status
                      /\ records' = records]_vars

(* getProfile has reported bloqueado 30 minutes after the block *)
C20_Witness ==
    /\ result.op = "getProfile"
    /\ result.code = "OK"
    /\ result.data.status = "bloqueado"
    /\ \E i \in DOMAIN records :
          /\ records[i].id = result.data.id
          /\ records[i].status = "bloqueado"
          /\ records[i].loginAttempts = 3
          /\ now - getTime(records[i].lastLoginAttempt) >= thirtyMinutes

----------------------------------------------------------------------------
(* Properties of the frame of login and of the lookups *)

ProfileFields == {"id", "username", "email", "passwordHash", "profile",
                  "avatar", "dateCreated", "dateModified"}

(* C21: a login step, whatever its outcome, leaves the dateModified,    *)
(* username, email, passwordHash, profile, avatar and dateCreated of    *)
(* every record as they were, and every field of every record other    *)
(* than the one its identifier resolves to.                             *)
C21_LoginFrame ==
    [][result'.op = "login"
       => /\ Len(records') = Len(records)
          /\ \A i \in DOMAIN records :
                /\ \A k \in ProfileFields : records'[i][k] = records[i][k]
                /\ ~LoginOn(i) => records'[i] = records[i]]_vars

(* a login has succeeded, later than the record was last modified, on *)
(* one of two accounts, the other one having failed attempts          *)
C21_Witness ==
    /\ result.op = "login"
    /\ result.code = "OK"
    /\ Len(records) = 2
    /\ \E i, j \in DOMAIN records :
          /\ records[i].id = result.data.id
          /\ getTime(records[i].dateModified) < now
          /\ j # i
          /\ records[j].loginAttempts > 0

(* C22: getProfile and updateProfile with a well-formed id that no     *)
(* record has, and requestPasswordReset with a well-formed email that  *)
(* no record has up to letter case, fail with NOT_FOUND and change     *)
(* nothing in the store; getProfile and requestPasswordReset change    *)
(* nothing in the store when they succeed either.                      *)
IdTaken(id) == \E i \in DOMAIN records : records[i].id = id

C22_AbsentIsNotFound ==
    [][/\ (/\ result'.op = "getProfile"
           /\ paramsSchema(result'.args)
           /\ ~IdTaken(result'.args))
          => result'.code = "NOT_FOUND"
       /\ (/\ result'.op = "updateProfile"
           /\ paramsSchema(result'.args[1])
           /\ updateSchema(result'.args[2])
           /\ ~IdTaken(result'.args[1]))
          => result'.code = "NOT_FOUND" /\ records' = records
       /\ (/\ result'.op = "requestPasswordReset"
           /\ emailSchema(result'.args)
           /\ ~MailTaken(result'.args))
          => result'.code = "NOT_FOUND"
       /\ result'.op \in {"getProfile", "requestPasswordReset"}
          => records' = records]_vars

(* a reset was asked for an email that no record has, the store having *)
(* a record with another email                                          *)
C22_Witness ==
    /\ result.op = "requestPasswordReset"
    /\ result.code = "NOT_FOUND"
    /\ Len(records) > 0
    /\ emailSchema(result.args)
    /\ ~MailTaken(result.args)

----------------------------------------------------------------------------
(* Properties of the counter of failed attempts *)

(* The step is the return of the login call of caller p, which passed *)
(* the status checks of the account at position i and then compared a *)
(* wrong password                                                      *)
WrongPasswordReturns(p, i) ==
    /\ Returns(p, "login")
    /\ inflight[p].user.id = records[i].id
    /\ ~comparePassword(inflight[p].body.password, inflight[p].user.passwordHash)

(* C23: every failed password comparison counts, also when login calls *)
(* overlap: the return of a wrong-password call leaves the record with *)
(* one failed attempt more than it had, so that three such calls on an *)
(* active account with none, and no success, leave it blocked with 3.  *)
C23_EveryFailureCounts ==
    [][\A p \in Procs, i \in DOMAIN records :
          WrongPasswordReturns(p, i)
          => /\ records'[i].loginAttempts = records[i].loginAttempts + 1
             /\ records'[i].loginAttempts >= 3
                   => records'[i].status = "bloqueado"]_vars

(* C24: a login call returns a token only for an account whose status *)
(* in the store is ativo when the call returns.                        *)
C24_TokenOnlyForActive ==
    [][\A p \in Procs :
          (Returns(p, "login") /\ result'.code = "OK")
          => \A i \in DOMAIN records' :
                records'[i].id = result'.data.id
                   => records'[i].status = "ativo"]_vars

(* C25: in every state, every record has 0 <= loginAttempts <= 3. *)
C25_AttemptsWithinThreshold ==
    \A i \in DOMAIN records :
        records[i].loginAttempts >= 0 /\ records[i].loginAttempts <= 3

(* C26: a login with the right password on an active account with 1 or *)
(* 2 failed attempts returns a token whose claims are the id, username  *)
(* and profile of the account and leaves it active with no failed       *)
(* attempt and lastLoginAttempt null; a wrong password after that       *)
(* counts from zero.                                                    *)
C26_SuccessResetsCounter ==
    [][\A i \in DOMAIN records :
          /\ (/\ LoginOn(i)
              /\ records[i].status = "ativo"
              /\ records[i].loginAttempts \in {1, 2}
              /\ RightPassword(i))
             => /\ result'.code = "OK"
                /\ ClaimsOf(PayloadOf(result'.data.token)) =
                      [id |-> records[i].id, username |-> records[i].username,
                       profile |-> records[i].profile]
                /\ records'[i].status = "ativo"
                /\ records'[i].loginAttempts = 0
                /\ records'[i].lastLoginAttempt = null
          /\ (/\ LoginOn(i)
              /\ result.op = "login"
              /\ result.code = "OK"
              /\ ~RightPassword(i))
             => /\ result'.code = "INVALID_CREDENTIALS"
                /\ records'[i].status = "ativo"
                /\ records'[i].loginAttempts = 1]_vars

(* a login has succeeded on an account with two failed attempts *)
C26_Witness ==
    /\ result.op = "login"
    /\ result.code = "OK"
    /\ result.user.status = "ativo"
    /\ result.user.loginAttempts = 2
    /\ \E i \in DOMAIN records :
          /\ records[i].id = result.data.id
          /\ records[i].loginAttempts = 0
          /\ records[i].lastLoginAttempt = null

----------------------------------------------------------------------------
(* Properties of the checks and of the merge of updateProfile *)

(* C27: an updateProfile call fails with DUPLICATE_USERNAME only when a *)
(* record other than the one updated has the username of the patch up   *)
(* to letter case, and with DUPLICATE_EMAIL only when another record    *)
(* has its email; the account's own username or email, in another       *)
(* letter case, is not refused.                                         *)
C27_OwnValueIsNoDuplicate ==
    [][\A i \in DOMAIN records :
          UpdateOn(i)
          => /\ result'.code = "DUPLICATE_USERNAME"
                => \E j \in DOMAIN records :
                      /\ j # i
                      /\ SameText(records[j].username, result'.args[2].username)
             /\ result'.code = "DUPLICATE_EMAIL"
                => \E j \in DOMAIN records :
                      /\ j # i
                      /\ SameText(records[j].email, result'.args[2].email)]_vars

----------------------------------------------------------------------------
(* Properties of the service left to itself *)

(* C30: from the empty store and with the seven calls of the service   *)
(* only, every record is pendente with no failed attempt and           *)
(* lastLoginAttempt null in every state, and no login returns a token. *)
C30_EverythingStaysPending ==
    /\ \A i \in DOMAIN records :
          /\ records[i].status = "pendente"
          /\ records[i].loginAttempts = 0
          /\ records[i].lastLoginAttempt = null
    /\ result.op = "login" => result.code # "OK"

(* confirmEmail was called with a token that verifyToken accepts for a *)
(* record of the store, and the record is pending as before; a second  *)
(* record is there too                                                  *)
C30_Witness ==
    /\ result.op = "confirmEmail"
    /\ result.code = "INVALID_TOKEN"
    /\ verifyToken(result.args, now).code = "OK"
    /\ Len(records) = 2
    /\ \E i \in DOMAIN records :
          /\ records[i].id = verifyToken(result.args, now).data.id
          /\ records[i].status = "pendente"

----------------------------------------------------------------------------
(* updateProfile calls that overlap.  userUpdateProfile has no await: a  *)
(* call runs from its validation to its write before anything else can  *)
(* run, and updateProfileHandler is suspended only at its own await of   *)
(* the finished call, holding the outcome it will answer with            *)

Zed == <<"Z","e","d">>
zedMail == <<"z","@","q",".","i","o">>

UpdateProfileBegin(p, id, body) ==
    /\ inflight[p] = Idle
    /\ LET r == userUpdateProfile(records, id, body, now) IN
       /\ records' = r.records
       /\ inflight' = [inflight EXCEPT ![p] =
                          [op |-> "updateProfile", id |-> id, body |-> body,
                           outcome |-> r.result]]
    /\ UNCHANGED <<now, issued, result>>

UpdateProfileResume(p) ==
    /\ inflight[p].op = "updateProfile"
    /\ result' = Outcome(<<inflight[p].id, inflight[p].body>>, inflight[p].outcome)
    /\ inflight' = [inflight EXCEPT ![p] = Idle]
    /\ UNCHANGED <<records, now, issued>>

RenamePatches ==
    {[username |-> zed], [username |-> Zed], [email |-> zedMail]}

(* The two callers whose calls overlap *)
Callers == {1, 2}

(* The accounts get the identifiers of PatchUuids in the order of their *)
(* registration                                                         *)
NextRename ==
    \/ \E body \in PatchBodies : Register(body, {<<"uuid", Len(records) + 1>>})
    \/ \E p \in Callers, id \in PatchUuids, body \in RenamePatches :
          UpdateProfileBegin(p, id, body)
    \/ \E p \in Callers : UpdateProfileResume(p)

SpecRename == Init /\ [][NextRename]_vars

(* The step is the run of an updateProfile call by caller q *)
UpdateRuns(q) == inflight[q] = Idle /\ inflight'[q].op = "updateProfile"

(* Caller p holds the answer of an updateProfile call that set field f, *)
(* and the account still has the value the call gave it                 *)
HoldsWrite(p, f) ==
    /\ inflight[p].op = "updateProfile"
    /\ inflight[p].outcome.code = "OK"
    /\ f \in DOMAIN inflight[p].body
    /\ getById(records, inflight[p].id)[f] = inflight[p].body[f]

(* Caller q's call asks on another account for the value of f that *)
(* caller p's call asked for, up to letter case                     *)
AsksTheSame(p, q, f) ==
    /\ p # q
    /\ inflight'[q].id # inflight[p].id
    /\ getById(records, inflight'[q].id) # undefined
    /\ f \in DOMAIN inflight'[q].body
    /\ SameText(inflight'[q].body[f], inflight[p].body[f])

(* C31: of two updateProfile calls on different accounts that overlap  *)
(* and ask for the same new username (or email), exactly one succeeds: *)
(* a call that asks for a free username on an existing account gets    *)
(* it; a call that runs while the other caller still awaits its answer *)
(* for that value fails with DUPLICATE_USERNAME (DUPLICATE_EMAIL),     *)
(* leaves the store as it was, and no two records are ever alike.      *)
C31_OverlappingUpdatesCannotBothPass ==
    [][\A q \in Procs :
          UpdateRuns(q)
          => /\ (/\ DOMAIN inflight'[q].body = {"username"}
                 /\ getById(records, inflight'[q].id) # undefined
                 /\ ~NameTaken(inflight'[q].body.username))
                => /\ inflight'[q].outcome.code = "OK"
                   /\ getById(records', inflight'[q].id).username
                         = inflight'[q].body.username
             /\ \A p \in Procs :
                   /\ (HoldsWrite(p, "username") /\ AsksTheSame(p, q, "username"))
                      => /\ inflight'[q].outcome.code = "DUPLICATE_USERNAME"
                         /\ records' = records
                   /\ (/\ HoldsWrite(p, "email") /\ AsksTheSame(p, q, "email")
                       /\ "username" \notin DOMAIN inflight'[q].body)
                      => /\ inflight'[q].outcome.code = "DUPLICATE_EMAIL"
                         /\ records' = records
             /\ NoTwoAlike']_vars

C31_Witness ==
    \E p, q \in Procs :
        /\ p # q
        /\ inflight[p].op = "updateProfile"
        /\ inflight[q].op = "updateProfile"
        /\ inflight[p].id # inflight[q].id
        /\ inflight[p].body = [username |-> zed]
        /\ inflight[q].body = [username |-> zed]
        /\ inflight[p].outcome.code = "OK"
        /\ inflight[q].outcome.code = "DUPLICATE_USERNAME"
        /\ getById(records, inflight[p].id).username = zed
        /\ getById(records, inflight[q].id).username # zed

----------------------------------------------------------------------------
(* The tier of an account.  No call of the service sets administrador;  *)
(* an account has it only when it was given from outside the service    *)

ExternalPromote(id) ==
    /\ getById(records, id) # undefined
    /\ getById(records, id).profile # "administrador"
    /\ records' = update(records, id, [profile |-> "administrador"])
    /\ result' = Outcome(id, Returned("externalPromote", null))
    /\ UNCHANGED <<now, issued, inflight>>

TierBodies ==
    {Body(bob, bobMail, pw1, "iniciante"),
     Body(amy, amyMail, pw2, "experiente"),
     Body(amy, amyMail, pw2, "administrador")}

TierPatches ==
    {[profile |-> "administrador"],
     [profile |-> "experiente"],
     [profile |-> "iniciante", avatar |-> avatarUrl],
     [username |-> zed, profile |-> "administrador"],
     [username |-> zed]}

NextTier ==
    \/ \E body \in TierBodies : Register(body, {<<"uuid", Len(records) + 1>>})
    \/ \E id \in PatchUuids, body \in TierPatches : UpdateProfile(id, body)
    \/ \E id \in PatchUuids : ExternalPromote(id)

SpecTier == Init /\ [][NextTier]_vars

(* C32: no register or updateProfile call gives an account the tier    *)
(* administrador: after such a call every account is iniciante or       *)
(* experiente unless it was administrador before the call.              *)
C32_NoCallMakesAnAdministrator ==
    [][result'.op \in {"register", "updateProfile"}
       => \A i \in DOMAIN records' :
             \/ records'[i].profile \in {"iniciante", "experiente"}
             \/ /\ records'[i].profile = "administrador"
                /\ getById(records, records'[i].id) # undefined
                /\ getById(records, records'[i].id).profile = "administrador"]_vars

C32_Witness ==
    /\ result.op = "updateProfile"
    /\ result.code = "VALIDATION_ERROR"
    /\ result.args[2] = [profile |-> "administrador"]
    /\ getById(records, result.args[1]) # undefined
    /\ getById(records, result.args[1]).profile = "iniciante"
    /\ \E i \in DOMAIN records : records[i].profile = "administrador"

----------------------------------------------------------------------------
(* A profile update while a login awaits the password comparison: the  *)
(* login resumes with the record it read before the await               *)

StaleLogins ==
    {Credentials(bob, pw1), Credentials(zed, pw1), Credentials(bob, pw2)}

StalePatches ==
    {[username |-> zed], [username |-> bob], [profile |-> "experiente"]}

NextStale ==
    \/ Register(Body(bob, bobMail, pw1, "iniciante"), {<<"uuid", 1>>})
    \/ ExternalConfirm(<<"uuid", 1>>)
    \/ \E p \in Procs, body \in StaleLogins : LoginBegin(p, body)
    \/ \E p \in Procs : LoginResume(p)
    \/ \E body \in StalePatches : UpdateProfile(<<"uuid", 1>>, body)

SpecStale == Init /\ [][NextStale]_vars

(* C33: the token claims and the profile a successful login returns    *)
(* carry the username and the tier the account has in the store when   *)
(* the login returns, also when an updateProfile call on the account   *)
(* completed while the login awaited the password comparison.          *)
C33_LoginAnswersWithTheStoredAccount ==
    [][\A p \in Procs :
          (Returns(p, "login") /\ result'.code = "OK")
          => LET stored == getById(records', result'.data.id)
                 claims == ClaimsOf(PayloadOf(result'.data.token))
             IN  /\ result'.data.username = stored.username
                 /\ result'.data.profile = stored.profile
                 /\ claims.username = stored.username
                 /\ claims.profile = stored.profile]_vars

====
